---- MODULE Spec2Model ----
(***************************************************************************)
(* a3modlink: symbolic links from numeric workshop directories (mods dir)  *)
(* to sanitised titles (links dir).  The model follows src/a3modlink.py.   *)
(*                                                                         *)
(* Names and titles are sequences of one-character strings.  A path is a   *)
(* record [root, name]: the entry `name` directly under the mods directory *)
(* or under the links directory.                                           *)
(***************************************************************************)
EXTENDS Integers, Sequences, FiniteSets, TLC

\* Longest list of IDs given to --add / of titles given to --unlink.
MaxArgs == 2

----------------------------------------------------------------------------
\* Characters

DigitChars == <<"0", "1", "2", "3", "4", "5", "6", "7", "8", "9">>
LowerLetters == <<"a", "b", "c", "d", "e", "f", "g", "h", "i", "j", "k", "l", "m",
                  "n", "o", "p", "q", "r", "s", "t", "u", "v", "w", "x", "y", "z">>
UpperLetters == <<"A", "B", "C", "D", "E", "F", "G", "H", "I", "J", "K", "L", "M",
                  "N", "O", "P", "Q", "R", "S", "T", "U", "V", "W", "X", "Y", "Z">>

AsciiDigits == {DigitChars[i] : i \in DOMAIN DigitChars}
AsciiLower == {LowerLetters[i] : i \in DOMAIN LowerLetters}
AsciiUpper == {UpperLetters[i] : i \in DOMAIN UpperLetters}

\* Decimal digits outside ASCII, each written as the name of its code point:
\* ARABIC-INDIC DIGIT THREE is one character
UnicodeDigits == {"U+0663"}

IndexIn(seq, c) == CHOOSE i \in DOMAIN seq : seq[i] = c

\* [a-zA-Z0-9_] of the regular expression in sanitise_path
WordChars == AsciiLower \cup AsciiUpper \cup AsciiDigits \cup {"_"}

\* str.lower() on one character
LowerChar(c) ==
    IF c \in AsciiUpper THEN LowerLetters[IndexIn(UpperLetters, c)] ELSE c

\* str.lower()
Lower(s) == [i \in 1..Len(s) |-> LowerChar(s[i])]

\* Code point of a character (the order Python's sorted() uses on str)
Ord(c) ==
    IF c \in AsciiDigits THEN 47 + IndexIn(DigitChars, c)
    ELSE IF c \in AsciiUpper THEN 64 + IndexIn(UpperLetters, c)
    ELSE IF c \in AsciiLower THEN 96 + IndexIn(LowerLetters, c)
    ELSE CASE c = " " -> 32
           [] c = "." -> 46
           [] c = "@" -> 64
           [] c = "_" -> 95
           [] c = "U+0663" -> 1635

\* s < t for Python strings: lexicographic by code point, a proper prefix first
RECURSIVE StrLess(_, _)
StrLess(s, t) ==
    IF t = <<>> THEN FALSE
    ELSE IF s = <<>> THEN TRUE
    ELSE IF Ord(Head(s)) # Ord(Head(t)) THEN Ord(Head(s)) < Ord(Head(t))
    ELSE StrLess(Tail(s), Tail(t))

\* str.isdigit(): true of every Unicode digit, not of the ASCII ones alone
isdigit(s) ==
    Len(s) > 0 /\ \A i \in 1..Len(s) : s[i] \in AsciiDigits \cup UnicodeDigits

----------------------------------------------------------------------------
\* Optional[str]: None is [ok |-> FALSE]

None == [ok |-> FALSE, val |-> <<>>]
Some(s) == [ok |-> TRUE, val |-> s]

\* Python truthiness of an Optional[str]: None and "" are falsy
Truthy(o) == o.ok /\ o.val # <<>>

\* re.sub(r"[^a-zA-Z0-9_]", "_", path)
SubNonWord(s) == [i \in 1..Len(s) |-> IF s[i] \in WordChars THEN s[i] ELSE "_"]

\* re.sub(r"_+", "_", sanitized)
RECURSIVE CollapseUnderscores(_)
CollapseUnderscores(s) ==
    IF Len(s) < 2 THEN s
    ELSE IF s[1] = "_" /\ s[2] = "_" THEN CollapseUnderscores(Tail(s))
    ELSE <<s[1]>> \o CollapseUnderscores(Tail(s))

\* sanitise_path without its second substitution
sanitise_path_no_collapse(path) ==
    IF ~Truthy(path) THEN path
    ELSE Some(SubNonWord(path.val))

sanitise_path(path) ==
    IF ~Truthy(path) THEN path
    ELSE Some(CollapseUnderscores(SubNonWord(path.val)))

----------------------------------------------------------------------------
\* The universe of the model

\* Workshop IDs given to --add; str(mod_id) of an int is a digit string
Ids == {<<"1">>, <<"2">>}

\* Names of the entries the mods directory may hold
ModNames == Ids \cup {<<"x">>}

\* Titles the Steam API may return
Titles == {<<"A", "@">>, <<"@">>, <<>>}

\* What one HTTP exchange of get_mod_title produces
ResponseKinds == {"timeout", "http_error", "bad_json", "null_body",
                  "no_response_key", "empty_details", "no_title",
                  "null_title", "title"}

Response(kind, title) == [kind |-> kind, title |-> title]

Responses ==
    {Response(k, <<>>) : k \in {"timeout", "null_body"}}
        \cup {Response("title", t) : t \in Titles}

\* Names an entry of the links directory may have
LinkNames == {<<"a", "_">>, <<"_">>}

NoPath == [root |-> "none", name |-> <<>>]
ModPath(name) == [root |-> "mods", name |-> name]
\* The directory, outside the mods and links directories, that the entry
\* `name` of the mods directory points at when that entry is a symbolic link
StorePath(name) == [root |-> "store", name |-> name]
LinkPath(name) == [root |-> "links", name |-> name]

Absent == [type |-> "absent", target |-> NoPath]
RealFile == [type |-> "file", target |-> NoPath]
RealDir == [type |-> "dir", target |-> NoPath]
Symlink(target) == [type |-> "link", target |-> target]

VARIABLES
    modsRoot,   \* "dir", "absent" or "file": what is at the path of the mods directory
    mods,       \* name -> "absent" | "dir" | "file" | "link": entries of the mods
                \* directory; "link" is a symbolic link to a directory kept elsewhere
    linksRoot,  \* "dir" or "absent": the links directory
    links,      \* name -> entry of the links directory
    linksWritable, \* FALSE when the links directory refuses changes (immutable
                \* attribute, no write permission): symlink and unlink in it fail
    resolver,   \* id -> response of the Steam API for that id
    pc,         \* "idle" | "add" | "done" | "crashed"
    cmd,        \* the option main is executing
    queue,      \* mod_ids still to be processed by the loop of --add
    report,     \* per item results of the running command, in order
    raised,     \* the exception that ended the run, or "none"
    listing,    \* the table printed by --list
    arg,        \* the argument of a function called on its own
    ret,        \* what the calls of that function returned, in order
    start,      \* the entries of the links directory when the runs began
    procs       \* the calls of link_mod of instances running side by side

vars == <<modsRoot, mods, linksRoot, links, linksWritable, resolver, pc, cmd, queue, report,
          raised, listing, arg, ret, start, procs>>

\* What main itself does not use
aux == <<arg, ret, start, procs>>

fsvars == <<modsRoot, mods, linksRoot, links, linksWritable, resolver>>

----------------------------------------------------------------------------
\* The file system, as pathlib sees it

\* The entries of the two directories, as one value
Fs(lk, md) == [links |-> lk, mods |-> md]

\* Path.exists() of a path on the entries fs; it follows symbolic links, and
\* a link that points at itself (ELOOP) does not exist
existsAt(fs, p) ==
    CASE p.root = "mods" ->
            /\ modsRoot = "dir"
            /\ p.name \in DOMAIN fs.mods
            /\ fs.mods[p.name] # "absent"
      [] p.root = "links" ->
            /\ linksRoot = "dir"
            /\ p.name \in DOMAIN fs.links
            /\ LET e == fs.links[p.name] IN
                 CASE e.type = "absent" -> FALSE
                   [] e.type = "link" ->
                        /\ e.target.root = "mods"
                        /\ modsRoot = "dir"
                        /\ fs.mods[e.target.name] # "absent"
                   [] OTHER -> TRUE
      [] p.root = "store" -> TRUE
      [] OTHER -> FALSE

\* Path.exists() of a path when the links directory holds the entries lk
exists(lk, p) == existsAt(Fs(lk, mods), p)

\* Path.is_symlink() of a path on the entries fs
is_symlinkAt(fs, p) ==
    CASE p.root = "links" ->
            linksRoot = "dir" /\ p.name \in DOMAIN fs.links /\ fs.links[p.name].type = "link"
      [] p.root = "mods" ->
            modsRoot = "dir" /\ p.name \in DOMAIN fs.mods /\ fs.mods[p.name] = "link"
      [] OTHER -> FALSE

\* Path.is_symlink() of links_dir / name
is_symlink(lk, name) == linksRoot = "dir" /\ lk[name].type = "link"

\* Path.is_dir() of mods_dir / name
is_dir(name) == modsRoot = "dir" /\ mods[name] \in {"dir", "link"}

\* A link whose chain of targets comes back to itself
IsLoop(lk, name) == lk[name].type = "link" /\ lk[name].target.root = "links"

\* Path.unlink() of links_dir / name when the directory holds the entries lk:
\* the errno of unlink(2), "ok" when the entry was removed, and the entries
\* after it
unlink(lk, name) ==
    IF lk[name].type = "absent" THEN [errno |-> "ENOENT", links |-> lk]
    ELSE IF ~linksWritable THEN [errno |-> "EPERM", links |-> lk]
    ELSE IF lk[name].type = "dir" THEN [errno |-> "EISDIR", links |-> lk]
    ELSE [errno |-> "ok", links |-> [lk EXCEPT ![name] = Absent]]

\* Path.unlink() of a path on the entries fs: the errno and the entries after
\* it.  Nothing in the model keeps the mods directory from being changed.
unlinkAt(fs, p) ==
    IF p.root = "links"
    THEN LET r == unlink(fs.links, p.name) IN
         [errno |-> r.errno, fs |-> Fs(r.links, fs.mods)]
    ELSE IF fs.mods[p.name] = "absent" THEN [errno |-> "ENOENT", fs |-> fs]
    ELSE IF fs.mods[p.name] = "dir" THEN [errno |-> "EISDIR", fs |-> fs]
    ELSE [errno |-> "ok", fs |-> Fs(fs.links, [fs.mods EXCEPT ![p.name] = "absent"])]

\* A title of --unlink that leaves the links directory: ../mods/<name>, with
\* the directories at their defaults ./mods and ./links
UpToMods == <<".", ".", "/", "m", "o", "d", "s", "/">>
OutsideTitle(name) == UpToMods \o name

\* links_path / title
TitlePath(title) ==
    IF Len(title) > Len(UpToMods) /\ SubSeq(title, 1, Len(UpToMods)) = UpToMods
    THEN ModPath(SubSeq(title, Len(UpToMods) + 1, Len(title)))
    ELSE LinkPath(title)

\* The orders in which Path.iterdir() may yield the names of S
IterdirOrders(S) ==
    {o \in [1..Cardinality(S) -> S] : \A i, j \in 1..Cardinality(S) : o[i] = o[j] => i = j}

\* symlink_to that replaces an entry already there (ln -sfn)
symlink_to_overwrite(name, source_path) ==
    IF linksRoot # "dir" THEN [errno |-> "ENOENT", links |-> links]
    ELSE IF ~linksWritable THEN [errno |-> "EPERM", links |-> links]
    ELSE [errno |-> "ok", links |-> [links EXCEPT ![name] = Symlink(source_path)]]

\* Path.symlink_to(source_path) of links_dir / name: the errno of symlink(2),
\* "ok" when the link was made, and the entries of the links directory after it
symlink_to(name, source_path) ==
    IF linksRoot # "dir" THEN [errno |-> "ENOENT", links |-> links]
    ELSE IF links[name].type # "absent" THEN [errno |-> "EEXIST", links |-> links]
    ELSE IF ~linksWritable THEN [errno |-> "EPERM", links |-> links]
    ELSE [errno |-> "ok", links |-> [links EXCEPT ![name] = Symlink(source_path)]]

----------------------------------------------------------------------------
\* get_mod_title

\* The exception the body of the try block raises for a response, "none" when
\* it reaches the return
RaisedBy(resp) ==
    CASE resp.kind = "timeout" -> "RequestException"         \* requests.post
      [] resp.kind = "http_error" -> "RequestException"      \* raise_for_status
      [] resp.kind = "bad_json" -> "RequestException"        \* response.json()
      [] resp.kind = "null_body" -> "TypeError"              \* data["response"], data a null or a list
      [] resp.kind = "no_response_key" -> "KeyError"         \* data["response"]
      [] resp.kind = "empty_details" -> "IndexError"         \* [...][0]
      [] resp.kind = "no_title" -> "KeyError"                \* [...]["title"]
      [] resp.kind = "null_title" -> "AttributeError"        \* title.lower()
      [] OTHER -> "none"

\* except (RequestException, KeyError, IndexError)
CaughtByGetModTitle == {"RequestException", "KeyError", "IndexError"}

\* get_mod_title(mod_id): [raised, value]; value is the Optional[str] returned
get_mod_title(mod_id) ==
    LET resp == resolver[mod_id]
        exc == RaisedBy(resp)
    IN  IF exc = "none" THEN [raised |-> "none", value |-> Some(Lower(resp.title))]
        ELSE IF exc \in CaughtByGetModTitle THEN [raised |-> "none", value |-> None]
        ELSE [raised |-> exc, value |-> None]

----------------------------------------------------------------------------
\* link_mod

LinkResult(exc, outcome, title, newLinks) ==
    [raised |-> exc, outcome |-> outcome, title |-> title, links |-> newLinks]

\* link_mod without the errno.EEXIST test: every OSError is a failure
link_mod_no_eexist(mod_id) ==
    LET got == get_mod_title(mod_id) IN
    IF got.raised # "none" THEN LinkResult(got.raised, "none", None, links)
    ELSE
      LET title == sanitise_path(got.value) IN
      IF ~Truthy(title) THEN LinkResult("none", "Unresolved", title, links)
      ELSE
        LET source_path == ModPath(mod_id) IN
        IF ~exists(links, source_path)
        THEN LinkResult("none", "SourceMissing", title, links)
        ELSE
          LET r == symlink_to(title.val, source_path) IN
          IF r.errno = "ok" THEN LinkResult("none", "Created", title, r.links)
          ELSE LinkResult("none", "CreateFailed", title, links)

\* link_mod that looks for the mod directory before it asks for the title
link_mod_source_first(mod_id) ==
    LET source_path == ModPath(mod_id) IN
    IF ~exists(links, source_path)
    THEN LinkResult("none", "SourceMissing", None, links)
    ELSE
      LET got == get_mod_title(mod_id) IN
      IF got.raised # "none" THEN LinkResult(got.raised, "none", None, links)
      ELSE
        LET title == sanitise_path(got.value) IN
        IF ~Truthy(title) THEN LinkResult("none", "Unresolved", title, links)
        ELSE
          LET r == symlink_to(title.val, source_path) IN
          IF r.errno = "ok" THEN LinkResult("none", "Created", title, r.links)
          ELSE IF r.errno = "EEXIST"
          THEN LinkResult("none", "AlreadyLinked", title, links)
          ELSE LinkResult("none", "CreateFailed", title, links)

\* The try block of link_mod without the errno.EEXIST test
TrySymlink_no_eexist(name, source_path) ==
    LET r == symlink_to(name, source_path) IN
    IF r.errno = "ok" THEN [outcome |-> "Created", links |-> r.links]
    ELSE [outcome |-> "CreateFailed", links |-> links]

\* The try block of link_mod telling an entry that is not the link wanted
\* from the link wanted
TrySymlink_name_conflict(name, source_path) ==
    LET r == symlink_to(name, source_path) IN
    IF r.errno = "ok" THEN [outcome |-> "Created", links |-> r.links]
    ELSE IF r.errno = "EEXIST"
    THEN [outcome |-> IF links[name] = Symlink(source_path)
                      THEN "AlreadyLinked" ELSE "NameConflict",
          links |-> links]
    ELSE [outcome |-> "CreateFailed", links |-> links]

\* The try block of link_mod: symlink_to and the handling of its OSError
TrySymlink(name, source_path) ==
    LET r == symlink_to(name, source_path) IN
    IF r.errno = "ok" THEN [outcome |-> "Created", links |-> r.links]
    ELSE IF r.errno = "EEXIST" THEN [outcome |-> "AlreadyLinked", links |-> links]
    ELSE [outcome |-> "CreateFailed", links |-> links]

\* link_mod(mod_id, mods_dir, links_dir).  The outcome names the branch taken:
\*   Unresolved    "Unable to get title", returns False
\*   SourceMissing "Mod directory does not exist", returns False
\*   Created       "Created link", returns True
\*   AlreadyLinked EEXIST, returns True
\*   CreateFailed  "Unable to create link", returns False
link_mod(mod_id) ==
    LET got == get_mod_title(mod_id) IN
    IF got.raised # "none" THEN LinkResult(got.raised, "none", None, links)
    ELSE
      LET title == sanitise_path(got.value) IN
      IF ~Truthy(title) THEN LinkResult("none", "Unresolved", title, links)
      ELSE
        LET source_path == ModPath(mod_id) IN
        IF ~exists(links, source_path)
        THEN LinkResult("none", "SourceMissing", title, links)
        ELSE
          LET r == TrySymlink(title.val, source_path) IN
          LinkResult("none", r.outcome, title, r.links)

----------------------------------------------------------------------------
\* read_mods

\* read_mods returning no name, instead of raising, without a mods directory
read_mods_missing_is_empty ==
    IF modsRoot # "dir" THEN [raised |-> "none", names |-> {}]
    ELSE [raised |-> "none",
          names |-> {n \in DOMAIN mods : mods[n] # "absent" /\ is_dir(n) /\ isdigit(n)}]

\* read_mods(mods_dir): the names it returns, as a set; the list is in the
\* order of iterdir()
read_mods ==
    IF modsRoot # "dir" THEN [raised |-> "ValueError", names |-> {}]
    ELSE [raised |-> "none",
          names |-> {n \in DOMAIN mods : mods[n] # "absent" /\ is_dir(n) /\ isdigit(n)}]

----------------------------------------------------------------------------
\* read_links

Item(name, target) == [name |-> name, target |-> target]

\* entry.resolve() of the link `name`: "path", or the exception it raises.
\* A link that points at itself raises RuntimeError (Symlink loop) up to
\* Python 3.12 and resolves to its own path from Python 3.13 on: loopRaises
\* says which.  Nothing in the model raises OSError.
ResolveOutcome(name, loopRaises) ==
    IF IsLoop(links, name) /\ loopRaises THEN "RuntimeError" ELSE "path"

\* str(entry.resolve()): the target, followed through an entry of the mods
\* directory that is itself a symbolic link
Resolved(name) ==
    LET t == links[name].target IN
    IF t.root = "mods" /\ modsRoot = "dir" /\ mods[t.name] = "link"
    THEN StorePath(t.name) ELSE t

RECURSIVE InsertSorted(_, _)
InsertSorted(item, seq) ==
    IF seq = <<>> THEN <<item>>
    ELSE IF StrLess(item.name, Head(seq).name) THEN <<item>> \o seq
    ELSE <<Head(seq)>> \o InsertSorted(item, Tail(seq))

\* sorted(results.items()): by link name
RECURSIVE SortItems(_)
SortItems(seq) ==
    IF seq = <<>> THEN <<>> ELSE InsertSorted(Head(seq), SortItems(Tail(seq)))

\* the loop of read_links over the entries, in iterdir order
RECURSIVE ReadEntries(_, _)
ReadEntries(entries, loopRaises) ==
    IF entries = <<>> THEN [raised |-> "none", items |-> <<>>]
    ELSE
      LET name == Head(entries) IN
      IF ~is_symlink(links, name) THEN ReadEntries(Tail(entries), loopRaises)
      ELSE
        LET out == ResolveOutcome(name, loopRaises) IN
        IF out = "OSError" THEN ReadEntries(Tail(entries), loopRaises)
        ELSE IF out # "path" THEN [raised |-> out, items |-> <<>>]
        ELSE
          LET rest == ReadEntries(Tail(entries), loopRaises) IN
          [raised |-> rest.raised,
           items |-> IF rest.raised = "none"
                     THEN <<Item(name, Resolved(name))>> \o rest.items
                     ELSE <<>>]

\* Names of the entries iterdir() yields for the links directory
LinkEntries == {n \in LinkNames : links[n].type # "absent"}

\* read_links(links_dir, sort), with the entries in iterdir order
read_links(sort, entries, loopRaises) ==
    IF linksRoot # "dir" THEN [raised |-> "none", items |-> <<>>]
    ELSE
      LET r == ReadEntries(entries, loopRaises) IN
      IF r.raised # "none" THEN r
      ELSE [raised |-> "none", items |-> IF sort THEN SortItems(r.items) ELSE r.items]

----------------------------------------------------------------------------
\* unlink_mod and remove_broken_links

Line(item, outcome) == [item |-> item, outcome |-> outcome]

\* unlink_mod without the is_symlink() test
RECURSIVE unlink_mod_exists_only(_, _)
unlink_mod_exists_only(titles, fs) ==
    IF titles = <<>> THEN [fs |-> fs, report |-> <<>>]
    ELSE
      LET title == Head(titles)
          link_path == TitlePath(title)
      IN
      IF linksRoot = "dir" /\ existsAt(fs, link_path)
      THEN LET r == unlinkAt(fs, link_path)
               rest == unlink_mod_exists_only(Tail(titles), r.fs)
           IN  [fs |-> rest.fs,
                report |-> <<Line(title, IF r.errno = "ok" THEN "Removed"
                                         ELSE "RemoveFailed")>> \o rest.report]
      ELSE LET rest == unlink_mod_exists_only(Tail(titles), fs) IN
           [fs |-> rest.fs,
            report |-> <<Line(title, "NotFound")>> \o rest.report]

\* unlink_mod(titles, links_dir), from the entries fs: the entries after it and
\* one line per title.  A title is joined to links_dir as it is, so
\* ../mods/<name> is the entry <name> of the mods directory, reached through
\* the links directory.
\*   Removed   "Removed link"
\*   RemoveFailed "Unable to remove link"
\*   NotFound  "Link not found or not a symlink"
RECURSIVE unlink_mod(_, _)
unlink_mod(titles, fs) ==
    IF titles = <<>> THEN [fs |-> fs, report |-> <<>>]
    ELSE
      LET title == Head(titles)
          link_path == TitlePath(title)
      IN
      IF linksRoot = "dir" /\ existsAt(fs, link_path) /\ is_symlinkAt(fs, link_path)
      THEN LET r == unlinkAt(fs, link_path)
               rest == unlink_mod(Tail(titles), r.fs)
           IN  [fs |-> rest.fs,
                report |-> <<Line(title, IF r.errno = "ok" THEN "Removed"
                                         ELSE "RemoveFailed")>> \o rest.report]
      ELSE LET rest == unlink_mod(Tail(titles), fs) IN
           [fs |-> rest.fs,
            report |-> <<Line(title, "NotFound")>> \o rest.report]

\* the loop of remove_broken_links without the exists() test
RECURSIVE RemoveBroken_every_link(_, _)
RemoveBroken_every_link(items, lk) ==
    IF items = <<>> THEN [links |-> lk, report |-> <<>>]
    ELSE
      LET it == Head(items)
          r == unlink(lk, it.name)
          rest == RemoveBroken_every_link(Tail(items), r.links)
      IN  [links |-> rest.links,
           report |-> <<Line(it.name, IF r.errno = "ok" THEN "Pruned"
                                      ELSE "RemoveFailed")>> \o rest.report]

\* the loop of remove_broken_links over links.items(), from the entries lk
RECURSIVE RemoveBroken(_, _)
RemoveBroken(items, lk) ==
    IF items = <<>> THEN [links |-> lk, report |-> <<>>]
    ELSE
      LET it == Head(items) IN
      IF ~exists(lk, it.target)
      THEN LET r == unlink(lk, it.name)
               rest == RemoveBroken(Tail(items), r.links)
           IN  [links |-> rest.links,
                report |-> <<Line(it.name, IF r.errno = "ok" THEN "Pruned"
                                           ELSE "RemoveFailed")>> \o rest.report]
      ELSE RemoveBroken(Tail(items), lk)

\* remove_broken_links(links_dir); broken_count is the number of Pruned lines
\* of the report
remove_broken_links(entries, loopRaises) ==
    LET r == read_links(FALSE, entries, loopRaises) IN
    IF r.raised # "none" THEN [raised |-> r.raised, links |-> links, report |-> <<>>]
    ELSE LET done == RemoveBroken(r.items, links) IN
         [raised |-> "none", links |-> done.links, report |-> done.report]

----------------------------------------------------------------------------
\* Initial states: the two directories as main may find them, and the answers
\* of the Steam API

\* What an entry of the links directory may be before the first command
EntryKinds(name) ==
    {Absent, RealFile, RealDir, Symlink(LinkPath(name))}
        \cup {Symlink(ModPath(i)) : i \in Ids}

NoCmd == [op |-> "none", args |-> <<>>]

\* The titles --unlink may be given: names of the links directory and a path
\* that leads to an entry of the mods directory
UnlinkTitles == LinkNames \cup {OutsideTitle(<<"1">>)}

\* The two directories and the answers of the Steam API
InitFs ==
    /\ modsRoot \in {"dir", "absent", "file"}
    /\ mods \in [ModNames -> {"absent", "dir", "file", "link"}]
    /\ modsRoot # "dir" => \A n \in ModNames : mods[n] = "absent"
    /\ modsRoot = "dir" => mods[<<"x">>] = "dir"
    /\ linksRoot \in {"dir", "absent"}
    /\ links \in [LinkNames -> UNION {EntryKinds(n) : n \in LinkNames}]
    /\ \A n \in LinkNames : links[n] \in EntryKinds(n)
    /\ linksRoot = "absent" => \A n \in LinkNames : links[n] = Absent
    /\ linksWritable \in BOOLEAN
    /\ linksRoot = "absent" => linksWritable = TRUE
    /\ resolver \in [ModNames -> Responses \cup {Response("no_title", <<>>)}]
    /\ \A n \in ModNames : (n \in Ids) = (resolver[n] \in Responses)

\* No command is running
InitMain ==
    /\ pc = "idle"
    /\ cmd = NoCmd
    /\ queue = <<>>
    /\ report = <<>>
    /\ raised = "none"
    /\ listing = <<>>

NoEntries == [n \in LinkNames |-> Absent]

Init ==
    /\ InitFs
    /\ InitMain
    /\ arg = None
    /\ ret = <<>>
    /\ start = NoEntries
    /\ procs = <<>>

\* Non-empty argument lists over S, of at most MaxArgs items
ArgLists(S) == UNION {[1..n -> S] : n \in 1..MaxArgs}

----------------------------------------------------------------------------
\* main: one action per option, and one per iteration of the loop of --add

\* --add ID [ID ...]: mod_ids = args.add
AddIds(ids) ==
    /\ pc = "idle"
    /\ pc' = "add"
    /\ cmd' = [op |-> "add", args |-> ids]
    /\ queue' = ids
    /\ report' = <<>>
    /\ UNCHANGED <<fsvars, raised, listing, aux>>

\* --add with no ID: mod_ids = read_mods(args.mods_dir)
AddAll ==
    /\ pc = "idle"
    /\ cmd' = [op |-> "add", args |-> <<>>]
    /\ report' = <<>>
    /\ LET r == read_mods IN
       IF r.raised # "none"
       THEN /\ pc' = "crashed"
            /\ raised' = r.raised
            /\ queue' = <<>>
       ELSE /\ queue' \in IterdirOrders(r.names)
            /\ pc' = IF r.names = {} THEN "done" ELSE "add"
            /\ raised' = "none"
    /\ UNCHANGED <<fsvars, listing, aux>>

\* for mod_id in mod_ids: link_mod(mod_id, args.mods_dir, args.links_dir)
LinkNext ==
    /\ pc = "add"
    /\ queue # <<>>
    /\ LET r == link_mod(Head(queue)) IN
       IF r.raised # "none"
       THEN /\ pc' = "crashed"
            /\ raised' = r.raised
            /\ UNCHANGED <<links, queue, report>>
       ELSE /\ links' = r.links
            /\ report' = Append(report, Line(Head(queue), r.outcome))
            /\ queue' = Tail(queue)
            /\ pc' = IF Tail(queue) = <<>> THEN "done" ELSE "add"
            /\ raised' = "none"
    /\ UNCHANGED <<modsRoot, mods, linksRoot, linksWritable, resolver, cmd, listing, aux>>

\* --unlink TITLE [TITLE ...]
Unlink(titles) ==
    /\ pc = "idle"
    /\ LET r == unlink_mod(titles, Fs(links, mods)) IN
       /\ links' = r.fs.links
       /\ mods' = r.fs.mods
       /\ report' = r.report
    /\ pc' = "done"
    /\ cmd' = [op |-> "unlink", args |-> titles]
    /\ UNCHANGED <<modsRoot, linksRoot, linksWritable, resolver, queue, raised,
                   listing, aux>>

\* --broken
Broken(entries, loopRaises) ==
    /\ pc = "idle"
    /\ cmd' = [op |-> "broken", args |-> <<>>]
    /\ LET r == remove_broken_links(entries, loopRaises) IN
       /\ links' = r.links
       /\ report' = r.report
       /\ raised' = r.raised
       /\ pc' = IF r.raised # "none" THEN "crashed" ELSE "done"
    /\ UNCHANGED <<modsRoot, mods, linksRoot, linksWritable, resolver, queue, listing,
                   aux>>

\* --list
List(entries, loopRaises) ==
    /\ pc = "idle"
    /\ cmd' = [op |-> "list", args |-> <<>>]
    /\ LET r == read_links(TRUE, entries, loopRaises) IN
       /\ listing' = r.items
       /\ raised' = r.raised
       /\ pc' = IF r.raised # "none" THEN "crashed" ELSE "done"
    /\ UNCHANGED <<fsvars, queue, report, aux>>

\* The process ends: normally, or with the traceback of the exception raised
Exit ==
    /\ pc \in {"done", "crashed"}
    /\ pc' = "idle"
    /\ cmd' = NoCmd
    /\ queue' = <<>>
    /\ report' = <<>>
    /\ raised' = "none"
    /\ listing' = <<>>
    /\ UNCHANGED <<fsvars, aux>>

Next ==
    \/ \E ids \in ArgLists(Ids) : AddIds(ids)
    \/ AddAll
    \/ LinkNext
    \/ \E titles \in ArgLists(UnlinkTitles) : Unlink(titles)
    \/ \E entries \in IterdirOrders(LinkEntries), loopRaises \in BOOLEAN :
          Broken(entries, loopRaises)
    \/ \E entries \in IterdirOrders(LinkEntries), loopRaises \in BOOLEAN :
          List(entries, loopRaises)
    \/ Exit

Spec == Init /\ [][Next]_vars

----------------------------------------------------------------------------
\* Vocabulary of the properties

\* The identifier-directories: digit-named subdirectories of the mods directory
ContentIds ==
    IF modsRoot = "dir" THEN {n \in ModNames : is_dir(n) /\ isdigit(n)} ELSE {}

\* The symbolic links of the links directory
LinkSet == IF linksRoot = "dir" THEN {n \in LinkNames : links[n].type = "link"} ELSE {}

\* The trailing path segment of the target of each link
LinkedIds == {links[n].target.name : n \in LinkSet}

SymDiff(A, B) == (A \ B) \cup (B \ A)

Range(seq) == {seq[k] : k \in 1..Len(seq)}
Items(lines) == [k \in 1..Len(lines) |-> lines[k].item]
Last(seq) == seq[Len(seq)]

\* The resolver gives a title for the identifier
Resolves(i) == resolver[i].kind = "title"

\* The link name of an identifier: its title, lowercased and sanitised
NameOf(i) == sanitise_path(Some(Lower(resolver[i].title))).val

\* The resolver gives the identifier a title whose link name is not empty
Linkable(i) == Resolves(i) /\ NameOf(i) # <<>>

\* The exceptions get_mod_title is written to absorb leave no title
NoTitle(i) == resolver[i].kind \in {"timeout", "http_error", "bad_json",
                                    "no_response_key", "empty_details", "no_title"}

RunningAdd == cmd.op = "add" /\ pc \in {"add", "done"}
SyncAllRun == RunningAdd /\ cmd.args = <<>>

\* This step is one call of link_mod that returned
LinkModReturns == pc = "add" /\ Len(report') = Len(report) + 1

----------------------------------------------------------------------------
\* C1: CreateLink is idempotent.  For an identifier whose mod directory
\* exists, whose title gives a non-empty link name and with the links
\* directory present and accepting new entries: a call that finds the link name free answers Created and
\* makes exactly the link name -> mods/identifier; a call that follows a call
\* for the same identifier answers AlreadyLinked and changes nothing, so that
\* after Created then AlreadyLinked the one entry of that name is still the
\* link to mods/identifier.
C1_Step ==
    LinkModReturns =>
      LET i == Head(queue)
          line == Last(report')
      IN  (/\ linksRoot = "dir"
           /\ linksWritable
           /\ exists(links, ModPath(i))
           /\ Linkable(i)) =>
            /\ links[NameOf(i)] = Absent =>
                 /\ line.outcome = "Created"
                 /\ links' = [links EXCEPT ![NameOf(i)] = Symlink(ModPath(i))]
            /\ (report # <<>> /\ Last(report).item = i) =>
                 /\ Last(report).outcome \in {"Created", "AlreadyLinked"}
                 /\ line.outcome = "AlreadyLinked"
                 /\ links' = links
                 /\ Last(report).outcome = "Created" =>
                      links[NameOf(i)] = Symlink(ModPath(i))

C1_CreateLinkIdempotent == [][C1_Step]_vars

\* Created then AlreadyLinked for one identifier, and its link in place
C1_Witness ==
    /\ pc = "done"
    /\ \E i \in Ids :
         /\ is_dir(i)
         /\ report = <<Line(i, "Created"), Line(i, "AlreadyLinked")>>
         /\ links[NameOf(i)] = Symlink(ModPath(i))

----------------------------------------------------------------------------
\* C2: --add with no ID attempts exactly the identifiers of the symmetric
\* difference of the content ids and the linked ids: when its loop begins,
\* the identifiers it is going to attempt are those.
C2_SymmetricDifference ==
    (SyncAllRun /\ report = <<>>) => Range(queue) = SymDiff(ContentIds, LinkedIds)

----------------------------------------------------------------------------
\* The links directory was empty, and accepted new entries, when the running
\* --add began: every entry it holds was created by a call of this run
StartedEmpty ==
    /\ linksRoot = "dir"
    /\ linksWritable
    /\ \A n \in LinkNames :
         links[n] # Absent =>
           \E k \in 1..Len(report) :
             /\ report[k].outcome = "Created"
             /\ Linkable(report[k].item)
             /\ NameOf(report[k].item) = n

SyncAllDone == SyncAllRun /\ pc = "done"

\* The outcome reported for an identifier of the run
OutcomeOf(i) == report[CHOOSE k \in 1..Len(report) : report[k].item = i].outcome

\* The first identifier of the run whose link name is n
FirstNamed(n) ==
    LET ks == {k \in 1..Len(report) :
                 Linkable(report[k].item) /\ NameOf(report[k].item) = n}
    IN  report[CHOOSE k \in ks : \A m \in ks : k <= m].item

\* C3 as stated: after --add with no ID on an empty links directory, every
\* content id with a title (one that gives a link name) has the link
\* sanitised-lowercased-title -> mods/id, every content id whose resolution
\* fails is reported Unresolved and has no link, and there are no other links.
C3_OneLinkPerResolvedId ==
    (SyncAllDone /\ StartedEmpty) =>
      /\ \A i \in ContentIds :
           /\ Linkable(i) => links[NameOf(i)] = Symlink(ModPath(i))
           /\ ~Resolves(i) =>
                /\ OutcomeOf(i) = "Unresolved"
                /\ \A n \in LinkNames : links[n] # Symlink(ModPath(i))
      /\ \A n \in LinkNames :
           links[n] # Absent => \E i \in ContentIds : Linkable(i) /\ NameOf(i) = n

\* C3, amended: after --add with no ID on an empty links directory, every
\* content id with a non-empty link name n is reported Created when it is the
\* first of the run named n and AlreadyLinked otherwise, and the link n
\* targets mods/j for that first identifier j; a content id whose resolution
\* fails or whose link name is empty is reported Unresolved and no link
\* targets it; there are no other links.
C3_OneLinkPerName ==
    (SyncAllDone /\ StartedEmpty) =>
      /\ \A i \in ContentIds :
           /\ Linkable(i) =>
                /\ links[NameOf(i)] = Symlink(ModPath(FirstNamed(NameOf(i))))
                /\ OutcomeOf(i) = IF FirstNamed(NameOf(i)) = i
                                  THEN "Created" ELSE "AlreadyLinked"
           /\ ~Linkable(i) =>
                /\ OutcomeOf(i) = "Unresolved"
                /\ \A n \in LinkNames : links[n] # Symlink(ModPath(i))
      /\ \A n \in LinkNames :
           links[n] # Absent => \E i \in ContentIds : Linkable(i) /\ NameOf(i) = n

\* Two content ids with the same title: the first gets the link, the second is
\* AlreadyLinked
C3_Witness ==
    /\ SyncAllDone /\ StartedEmpty
    /\ \E i, j \in ContentIds :
         /\ i # j
         /\ report = <<Line(i, "Created"), Line(j, "AlreadyLinked")>>
         /\ links[NameOf(j)] = Symlink(ModPath(i))

----------------------------------------------------------------------------
\* The target of the link n exists
TargetExists(n) == exists(links, links[n].target)

\* This step is a --broken that ran to its end
BrokenReturns == pc = "idle" /\ pc' = "done" /\ cmd'.op = "broken"

\* No removal of the command that returns failed
NoRemovalFailure == \A k \in 1..Len(report') : report'[k].outcome # "RemoveFailed"

\* C4: --broken that ends without a removal failure removes exactly the
\* links whose target does not exist: a
\* link with an existing target keeps its name and target, a link with an
\* absent target is gone, an entry that is no link is untouched, and the count
\* of removed links is the number of links removed.
C4_Step ==
    (BrokenReturns /\ NoRemovalFailure) =>
      /\ \A n \in LinkNames :
           links'[n] = IF is_symlink(links, n) /\ ~TargetExists(n)
                       THEN Absent ELSE links[n]
      /\ Len(report') = Cardinality({n \in LinkNames : links'[n] # links[n]})
      /\ Range(report') = {Line(n, "Pruned") : n \in {m \in LinkNames : links'[m] # links[m]}}
      /\ UNCHANGED <<modsRoot, mods, linksRoot>>

C4_PruneBrokenExact == [][C4_Step]_vars

\* One link pruned, the valid link still there
C4_Witness ==
    /\ pc = "done" /\ cmd.op = "broken"
    /\ \E n, m \in LinkNames :
         /\ report = <<Line(n, "Pruned")>>
         /\ links[n] = Absent
         /\ is_symlink(links, m) /\ TargetExists(m)

----------------------------------------------------------------------------
\* This step is an --unlink
UnlinkReturns == pc = "idle" /\ pc' = "done" /\ cmd'.op = "unlink"

\* C5: --unlink never deletes what is no symbolic link: a requested name that
\* is a real file, a real directory or nothing is reported NotFound and its
\* entry is the same afterwards.
C5_Step ==
    UnlinkReturns =>
      \A n \in LinkNames :
        ~is_symlink(links, n) =>
          /\ links'[n] = links[n]
          /\ \A k \in 1..Len(report') :
               report'[k].item = n => report'[k].outcome = "NotFound"
          /\ n \in Range(cmd'.args) => Line(n, "NotFound") \in Range(report')

C5_NeverDeletesNonSymlink == [][C5_Step]_vars

\* A real directory was named, reported NotFound, and is still there
C5_Witness ==
    /\ pc = "done" /\ cmd.op = "unlink"
    /\ \E n \in LinkNames :
         /\ n \in Range(cmd.args)
         /\ links[n] = RealDir
         /\ Line(n, "NotFound") \in Range(report)

\* C6: when --unlink returns and no removal failed, no requested name is
\* still a symbolic link of the links directory, whether its target exists or
\* not.
C6_EveryRequestedLinkRemoved ==
    (/\ pc = "done" /\ cmd.op = "unlink"
     /\ \A k \in 1..Len(report) : report[k].outcome # "RemoveFailed") =>
      \A n \in Range(cmd.args) : ~is_symlinkAt(Fs(links, mods), TitlePath(n))

----------------------------------------------------------------------------
\* C7: in an --add every identifier is attempted exactly once whatever
\* happens to the others: no failure of the resolver ends the run (the only
\* exception that may end it is the configuration error of read_mods), and at
\* the end the identifiers reported are the identifiers given.
C7_PerItemIsolation ==
    cmd.op = "add" =>
      /\ pc = "crashed" => (raised = "ValueError" /\ cmd.args = <<>>)
      /\ (pc = "done" /\ cmd.args # <<>>) => Items(report) = cmd.args

----------------------------------------------------------------------------
\* The resolver fails for the identifier in a way get_mod_title absorbs, or
\* gives the empty title
Unresolvable(i) == NoTitle(i) \/ (Resolves(i) /\ resolver[i].title = <<>>)

\* C8: a call of link_mod that answers Unresolved changes nothing in the file
\* system, and Unresolved is answered whenever the resolver fails or the link
\* name is empty, whether the mod directory exists or not (and only then).
C8_Step ==
    LinkModReturns =>
      LET i == Head(queue)
          line == Last(report')
      IN  /\ (line.outcome = "Unresolved") = Unresolvable(i)
          /\ line.outcome = "Unresolved" => UNCHANGED fsvars

C8_UnresolvedNoMutation == [][C8_Step]_vars

\* An identifier that is unresolvable and has no mod directory: Unresolved
C8_Witness ==
    /\ RunningAdd
    /\ \E i \in Ids :
         /\ Unresolvable(i)
         /\ ~exists(links, ModPath(i))
         /\ Line(i, "Unresolved") \in Range(report)
    /\ \E n \in LinkNames : links[n] # Absent

----------------------------------------------------------------------------
\* C9: link_mod creates a link only when mods/identifier is a directory: when
\* it is absent or a regular file the answer is SourceMissing.
C9_Step ==
    LinkModReturns =>
      LET i == Head(queue)
          line == Last(report')
      IN  /\ line.outcome = "Created" => is_dir(i)
          /\ (Linkable(i) /\ ~is_dir(i)) =>
               (line.outcome = "SourceMissing" /\ links' = links)

C9_LinkOnlyToDirectory == [][C9_Step]_vars

----------------------------------------------------------------------------
\* C10: --list shows exactly one row per symbolic link of the links
\* directory, links with a missing or unresolvable target included, in the
\* order of the link names, never fails, and shows nothing when the links
\* directory does not exist.
C10_ListsEveryLink ==
    cmd.op = "list" =>
      /\ pc # "crashed"
      /\ pc = "done" =>
           /\ {listing[k].name : k \in 1..Len(listing)} = LinkSet
           /\ Len(listing) = Cardinality(LinkSet)
           /\ \A k \in 1..Len(listing) : listing[k].target = Resolved(listing[k].name)
           /\ \A k \in 1..Len(listing) - 1 : StrLess(listing[k].name, listing[k + 1].name)

----------------------------------------------------------------------------
\* sanitise_path called on its own, and again on what it returned

MaxLen == 4
MaxCalls == 2

\* A letter of each case, a digit, the underscore and two other characters
SanitiseChars == {"a", "Z", "7", "_", "@", " "}

\* The example of the docstring of sanitise_path, and what it says is returned
DocExample ==
    <<"M", "y", " ", "M", "o", "d", " ", "@", "H", "o", "m", "e", " ",
      "v", "1", ".", "2">>
DocResult ==
    <<"M", "y", "_", "M", "o", "d", "_", "H", "o", "m", "e", "_",
      "v", "1", "_", "2">>

SanitiseInputs ==
    {None, Some(DocExample)}
        \cup {Some(s) : s \in UNION {[1..n -> SanitiseChars] : n \in 0..MaxLen}}

\* Nothing on disk and no command running
NoFs ==
    /\ modsRoot = "absent"
    /\ mods = [n \in ModNames |-> "absent"]
    /\ linksRoot = "absent"
    /\ links = NoEntries
    /\ linksWritable = TRUE
    /\ resolver = [n \in ModNames |-> Response("no_title", <<>>)]

InitSanitise ==
    /\ NoFs
    /\ InitMain
    /\ arg \in SanitiseInputs
    /\ ret = <<>>
    /\ start = NoEntries
    /\ procs = <<>>

\* sanitise_path(arg), then sanitise_path of the value returned
CallSanitise ==
    /\ Len(ret) < MaxCalls
    /\ ret' = Append(ret, sanitise_path(IF ret = <<>> THEN arg ELSE Last(ret)))
    /\ UNCHANGED <<fsvars, pc, cmd, queue, report, raised, listing, arg, start, procs>>

NextSanitise == CallSanitise

SpecSanitise == InitSanitise /\ [][NextSanitise]_vars

\* Letters and digits: the characters that are kept and are not the underscore
Alnum == WordChars \ {"_"}

\* Where the character at position j of s ends up: after the letters and
\* digits before it and one underscore for each run of other characters
OutPos(s, j) ==
    Cardinality({i \in 1..j : s[i] \in Alnum})
        + Cardinality({i \in 1..j : s[i] \notin Alnum /\ (i = 1 \/ s[i - 1] \in Alnum)})

\* C11: sanitize maps every string to a string and is idempotent; the empty
\* string gives the empty string; the result holds only letters, digits and
\* underscores and no two underscores in a row; letters and digits stay, every
\* run of other characters becomes one underscore, also at either end of the
\* string; "My Mod @Home v1.2" gives "My_Mod_Home_v1_2".
C11_SanitiseContract ==
    \A k \in 1..Len(ret) :
        LET in == IF k = 1 THEN arg ELSE ret[k - 1]
            out == ret[k]
        IN  /\ in.ok => out.ok
            /\ k > 1 => out = in
            /\ in = Some(<<>>) => out = Some(<<>>)
            /\ in = Some(DocExample) => out = Some(DocResult)
            /\ in.ok =>
                 /\ \A j \in 1..Len(out.val) : out.val[j] \in WordChars
                 /\ \A j \in 1..Len(out.val) - 1 :
                       ~(out.val[j] = "_" /\ out.val[j + 1] = "_")
                 /\ Len(out.val) = OutPos(in.val, Len(in.val))
                 /\ \A j \in 1..Len(in.val) :
                       out.val[OutPos(in.val, j)] =
                           IF in.val[j] \in Alnum THEN in.val[j] ELSE "_"

\* The example of the docstring has been sanitised, and its result again
C11_Witness ==
    /\ Len(ret) = MaxCalls
    /\ arg = Some(DocExample)
    /\ ret[1] = Some(DocResult)
    /\ ret[2] = ret[1]

----------------------------------------------------------------------------
\* C12: no step of any command, whatever the titles or identifiers it is
\* given, changes the mods directory or its entries;
\* the only change a step makes on disk is that a name of the links directory
\* that was free becomes a symbolic link, or that a symbolic link is removed.
C12_Step ==
    /\ modsRoot' = modsRoot
    /\ mods' = mods
    /\ linksRoot' = linksRoot
    /\ \A n \in LinkNames :
         links'[n] # links[n] =>
           \/ links[n] = Absent /\ links'[n].type = "link"
           \/ links[n].type = "link" /\ links'[n] = Absent

C12_ContentRootNeverMutated == [][C12_Step]_vars

----------------------------------------------------------------------------
\* read_mods called on its own, on a mods directory with entries of any name

\* Names an entry of the scanned directory may have
ScanNames ==
    {<<"1", "2", "3">>, <<"a", "b", "c">>, <<"4", "5", "a">>, <<"7">>, <<"U+0663">>}

InitScan ==
    /\ modsRoot = "dir"
    /\ mods \in [ScanNames -> {"absent", "dir", "file"}]
    /\ linksRoot = "absent"
    /\ links = NoEntries
    /\ linksWritable = TRUE
    /\ resolver = [n \in ModNames |-> Response("no_title", <<>>)]
    /\ InitMain
    /\ arg = None
    /\ ret = <<>>
    /\ start = NoEntries
    /\ procs = <<>>

\* read_mods(mods_dir)
CallReadMods ==
    /\ ret = <<>>
    /\ ret' = <<read_mods>>
    /\ UNCHANGED <<fsvars, pc, cmd, queue, report, raised, listing, arg, start, procs>>

NextScan == CallReadMods

SpecScan == InitScan /\ [][NextScan]_vars

\* The name matches ^[0-9]+$
AsciiDigitName(n) == Len(n) > 0 /\ \A k \in 1..Len(n) : n[k] \in AsciiDigits

\* C13: the scan of the mods directory returns exactly its subdirectories
\* whose name is one or more ASCII decimal digits; every other name, and
\* every entry that is not a directory, is left out.
C13_ExactlyAsciiDigitDirs ==
    ret # <<>> =>
      /\ ret[1].raised = "none"
      /\ ret[1].names = {n \in DOMAIN mods : mods[n] = "dir" /\ AsciiDigitName(n)}

----------------------------------------------------------------------------
\* C14: --add with no ID on a mods directory that is missing or is not a
\* directory ends with the ValueError of read_mods, before link_mod is
\* called for any identifier and with the links directory as it was; --list
\* and --broken without a links directory end normally, find nothing and
\* change nothing.
C14_Step ==
    /\ (pc = "idle" /\ cmd'.op = "add" /\ cmd'.args = <<>> /\ modsRoot # "dir") =>
         /\ pc' = "crashed"
         /\ raised' = "ValueError"
         /\ queue' = <<>>
         /\ report' = <<>>
         /\ UNCHANGED fsvars
    /\ (pc = "idle" /\ cmd'.op \in {"list", "broken"} /\ linksRoot = "absent") =>
         /\ pc' = "done"
         /\ raised' = "none"
         /\ listing' = <<>>
         /\ report' = <<>>
         /\ UNCHANGED fsvars

C14_DirectoryUnavailable == [][C14_Step]_vars

\* --add with no ID has ended with ValueError on a mods path that is a file,
\* beside a links directory that holds a link
C14_Witness ==
    /\ pc = "crashed" /\ cmd.op = "add" /\ cmd.args = <<>>
    /\ raised = "ValueError"
    /\ modsRoot = "file"
    /\ linksRoot = "dir" /\ LinkSet # {}

----------------------------------------------------------------------------
\* The title of the identifier is not empty and has no letter, digit or
\* underscore
AllSymbols(i) ==
    /\ Resolves(i)
    /\ resolver[i].title # <<>>
    /\ \A k \in 1..Len(resolver[i].title) : resolver[i].title[k] \notin WordChars

\* C15: an identifier whose title is made of symbol characters only cannot
\* be linked: a call of link_mod for it answers Unresolved, so it never
\* answers Created, and it creates no link.
C15_Step ==
    (LinkModReturns /\ AllSymbols(Head(queue))) =>
      /\ Last(report').outcome # "Created"
      /\ links' = links

C15_AllSymbolTitleNotLinked == [][C15_Step]_vars

----------------------------------------------------------------------------
\* --add with no ID, run again and again on the same mods directory with the
\* same answers of the Steam API, each run ending or being interrupted

InitSync ==
    /\ InitFs
    /\ InitMain
    /\ start = links
    /\ arg = None
    /\ ret = <<>>
    /\ procs = <<>>

\* The process is killed (KeyboardInterrupt, SIGTERM) between two iterations
\* of the loop over mod_ids; symlink_to is one system call, so a process
\* killed inside an iteration has either made its link or not
Interrupt ==
    /\ pc = "add"
    /\ pc' = "idle"
    /\ cmd' = NoCmd
    /\ queue' = <<>>
    /\ report' = <<>>
    /\ UNCHANGED <<fsvars, raised, listing, aux>>

NextSync ==
    \/ AddAll
    \/ LinkNext
    \/ Interrupt
    \/ Exit

SpecSync == InitSync /\ [][NextSync]_vars

\* The identifier-directories whose link name is n
Candidates(n) == {i \in ContentIds : Linkable(i) /\ NameOf(i) = n}

\* Every link name of an identifier-directory is taken, when the links
\* directory is there and accepts new entries
Synced ==
    (linksRoot = "dir" /\ linksWritable) => \A n \in LinkNames : Candidates(n) # {} => links[n] # Absent

\* What runs of --add with no ID, complete or not, may have made of the
\* entries the links directory started with: an entry is as it was, or a name
\* that was free is a link to an identifier-directory of that link name
OnlyCompleteLinks ==
    /\ linksRoot # "dir" => links = start
    /\ \A n \in LinkNames :
         \/ links[n] = start[n]
         \/ /\ start[n] = Absent
            /\ \E i \in Candidates(n) : links[n] = Symlink(ModPath(i))

\* C16: however many runs of --add with no ID were interrupted, and wherever,
\* the links directory holds only what it started with and complete links,
\* each to the identifier-directory of its link name; a run that completes,
\* after interrupted runs or not, ends with the links an uninterrupted run
\* from the start ends with (every link name of an identifier-directory is
\* taken, by the entry that was there or by a link to a directory of that
\* name); and a run on a directory in that condition changes nothing.
C16_InterruptSafeRerun ==
    /\ [](OnlyCompleteLinks /\ ((pc = "done" /\ cmd.op = "add") => Synced))
    /\ [][(pc = "add" /\ Synced) => links' = links]_vars

\* A run that completed found the link of one identifier made by an earlier
\* run that had not reached the other identifier, and made the other link
C16_Witness ==
    /\ pc = "done" /\ cmd.op = "add"
    /\ \E i, j \in ContentIds :
         /\ i # j
         /\ Linkable(i) /\ Linkable(j)
         /\ start[NameOf(i)] = Absent /\ start[NameOf(j)] = Absent
         /\ report = <<Line(i, "AlreadyLinked"), Line(j, "Created")>>
         /\ links[NameOf(i)] = Symlink(ModPath(i))
         /\ links[NameOf(j)] = Symlink(ModPath(j))

----------------------------------------------------------------------------
\* Two instances of the program, each in its call of link_mod, on the same
\* mods and links directories.  A call is three steps, each one system call or
\* one HTTP exchange, and the steps of the two calls interleave in any order.

Instances == {1, 2}

\* An instance about to call link_mod(mod_id, ...)
Call(mod_id) == [id |-> mod_id, at |-> "resolve", title |-> None, outcome |-> "none"]

InitRace ==
    /\ InitFs
    /\ InitMain
    /\ start = links
    /\ procs \in [Instances -> {Call(i) : i \in Ids}]
    /\ arg = None
    /\ ret = <<>>

\* title = sanitise_path(get_mod_title(mod_id)); if not title: return False
Resolve(p) ==
    /\ procs[p].at = "resolve"
    /\ LET got == get_mod_title(procs[p].id)
           title == sanitise_path(got.value)
       IN  procs' = [procs EXCEPT ![p] =
             IF got.raised # "none" THEN [@ EXCEPT !.at = "crashed"]
             ELSE IF ~Truthy(title)
             THEN [@ EXCEPT !.at = "returned", !.title = title, !.outcome = "Unresolved"]
             ELSE [@ EXCEPT !.at = "check", !.title = title]]
    /\ UNCHANGED <<fsvars, pc, cmd, queue, report, raised, listing, arg, ret, start>>

\* if not source_path.exists(): return False
CheckSource(p) ==
    /\ procs[p].at = "check"
    /\ procs' = [procs EXCEPT ![p] =
         IF ~exists(links, ModPath(procs[p].id))
         THEN [@ EXCEPT !.at = "returned", !.outcome = "SourceMissing"]
         ELSE [@ EXCEPT !.at = "create"]]
    /\ UNCHANGED <<fsvars, pc, cmd, queue, report, raised, listing, arg, ret, start>>

\* target_path.symlink_to(source_path), and the return of link_mod
CreateStep(p) ==
    /\ procs[p].at = "create"
    /\ LET r == TrySymlink(procs[p].title.val, ModPath(procs[p].id)) IN
       /\ links' = r.links
       /\ procs' = [procs EXCEPT ![p] = [@ EXCEPT !.at = "returned", !.outcome = r.outcome]]
    /\ UNCHANGED <<modsRoot, mods, linksRoot, linksWritable, resolver, pc, cmd, queue, report,
                   raised, listing, arg, ret, start>>

NextRace ==
    \/ \E p \in Instances : Resolve(p)
    \/ \E p \in Instances : CheckSource(p)
    \/ \E p \in Instances : CreateStep(p)

SpecRace == InitRace /\ [][NextRace]_vars

\* Both instances add the identifier i, which can be linked, its link name
\* is free when they start and the links directory accepts new entries
SameFreeName(i) ==
    /\ \A p \in Instances : procs[p].id = i
    /\ Linkable(i)
    /\ is_dir(i)
    /\ linksRoot = "dir"
    /\ linksWritable
    /\ start[NameOf(i)] = Absent

\* C17: when two calls of link_mod for the same identifier, whose link name
\* is free, have both returned, whatever the order of their steps: one
\* answered Created and the other AlreadyLinked, none CreateFailed, and the
\* link name is one link to the directory of the identifier.
C17_ExactlyOneCreated ==
    \A i \in Ids :
      (SameFreeName(i) /\ \A p \in Instances : procs[p].at = "returned") =>
        /\ {procs[p].outcome : p \in Instances} = {"Created", "AlreadyLinked"}
        /\ links[NameOf(i)] = Symlink(ModPath(i))
        /\ \A n \in LinkNames \ {NameOf(i)} : links[n] = start[n]

\* The second instance made the link while the first was between its test
\* of the mod directory and its symlink_to, which then answered AlreadyLinked
C17_Witness ==
    \E i \in Ids :
      /\ SameFreeName(i)
      /\ procs[1] = [id |-> i, at |-> "returned", title |-> Some(NameOf(i)),
                     outcome |-> "AlreadyLinked"]
      /\ procs[2].outcome = "Created"

----------------------------------------------------------------------------
\* C18: a call of link_mod that reaches symlink_to while the link name is
\* taken, by a link to the directory of the identifier, by a link to anything
\* else or by a file or directory, answers AlreadyLinked and leaves every
\* entry of the links directory as it was.
C18_Step ==
    LinkModReturns =>
      LET i == Head(queue) IN
      (/\ Linkable(i)
       /\ exists(links, ModPath(i))
       /\ linksRoot = "dir"
       /\ links[NameOf(i)] # Absent) =>
         /\ Last(report').outcome = "AlreadyLinked"
         /\ links' = links

C18_ExistingEntryLeftAlone == [][C18_Step]_vars

\* AlreadyLinked was answered for an identifier whose link name is a link to
\* the directory of another identifier, and the link still points there
C18_Witness ==
    /\ RunningAdd
    /\ \E i, j \in Ids :
         /\ i # j
         /\ Linkable(i)
         /\ is_dir(i)
         /\ report = <<Line(i, "AlreadyLinked")>>
         /\ links[NameOf(i)] = Symlink(ModPath(j))

----------------------------------------------------------------------------
\* C19: main creates the directories it needs before it runs the command:
\* a call of link_mod for an identifier that can be linked and whose mod
\* directory exists, made while the links directory did not exist when the
\* command started, finds the links directory created and answers Created.
C19_Step ==
    LinkModReturns =>
      LET i == Head(queue) IN
      (Linkable(i) /\ is_dir(i) /\ linksRoot = "absent") =>
        /\ linksRoot' = "dir"
        /\ Last(report').outcome = "Created"

C19_LinksRootCreated == [][C19_Step]_vars

====
